---- MODULE Spec2Model ----
(***************************************************************************)
(* Two-level community layout of utils/draw.py: community_layout and its   *)
(* helpers _position_communities, _find_between_community_edges and        *)
(* _position_nodes, over small graphs and partitions.                      *)
(*                                                                         *)
(* A graph is [nodes, edges, directed]: edges is the set of pairs <<u,v>>  *)
(* that g.edges() yields (for an undirected graph each edge once, in the   *)
(* orientation of the enumeration).  A partition is a function from the    *)
(* nodes it lists to community ids (a Python dict).  Positions are pairs   *)
(* of integers.  A Python dict is a function; a missing key is a KeyError. *)
(***************************************************************************)
EXTENDS Integers, Sequences, FiniteSets, TLC

VARIABLES g, partition, rng, pc, raised,
          between_community_edges, pos_communities,
          communities, todo, pos_nodes, pos, calls,
          last, memo

vars == <<g, partition, rng, pc, raised, between_community_edges,
          pos_communities, communities, todo, pos_nodes, pos, calls,
          last, memo>>

\* ------------------------------------------------------------------ bounds
MaxNode == 3
MaxEdges == 2
\* the largest graph of the runs whose partition maps exactly the graph's nodes
MaxCovered == 4

Nodes == 1..MaxNode
\* community ids (ints, as in the docstring of community_layout)
CommunityIds == {1, 2}
\* the states of the random stream
RngStates == {0, 1, 2, 3, 4}
RngPeriod == Cardinality(RngStates)
\* seed=None is <<>>, seed=k is <<k>>
SeededCalls == {<<0>>, <<1>>}

\* scale=3. and scale=1. of community_layout
CommunityScale == 3
NodeScale == 1

\* ----------------------------------------------------------------- helpers
EmptyDict == <<>>

Range(f) == {f[x] : x \in DOMAIN f}

VAdd(a, b) == <<a[1] + b[1], a[2] + b[2]>>

VSub(a, b) == <<a[1] - b[1], a[2] - b[2]>>

Min(S) == CHOOSE x \in S : \A y \in S : x <= y

RECURSIVE SortedSeq(_)
\* the elements of a set of integers, ascending
SortedSeq(S) ==
    IF S = {} THEN <<>>
    ELSE LET m == Min(S) IN <<m>> \o SortedSeq(S \ {m})

RECURSIVE SumOver(_, _)
\* the sum of f over the keys in S
SumOver(S, f) ==
    IF S = {} THEN 0
    ELSE LET x == CHOOSE y \in S : TRUE IN f[x] + SumOver(S \ {x}, f)

\* ------------------------------------------------------------------ graphs
\* An undirected graph's edges() yields each edge once, from the node that
\* comes first in the node order: no edge in both orientations, no cycle.
RECURSIVE Acyclic(_, _)
Acyclic(V, E) ==
    IF V = {} THEN TRUE
    ELSE LET src == {v \in V : \A e \in E : e[2] = v => e[1] = v}
         IN  IF src = {} THEN FALSE
             ELSE Acyclic(V \ src, {e \in E : e[1] \notin src /\ e[2] \notin src})

RECURSIVE SetsUpTo(_, _)
\* the subsets of P with at most k elements
SetsUpTo(P, k) ==
    IF k = 0 THEN {{}}
    ELSE LET smaller == SetsUpTo(P, k - 1)
         IN  smaller \cup {E \cup {e} : E \in smaller, e \in P}

EdgeSets(V) == SetsUpTo(V \X V, MaxEdges)

GraphsOn(V) ==
    UNION { { [nodes |-> V, edges |-> E, directed |-> d] : d \in
                {x \in BOOLEAN : x \/ Acyclic(V, E)} }
            : E \in EdgeSets(V) }

Graphs == UNION {GraphsOn(V) : V \in SUBSET Nodes}

\* the graphs without self-loops on the nodes 1..k, k up to MaxCovered
CoveredGraphs ==
    {gr \in UNION {GraphsOn(1..k) : k \in 0..MaxCovered} :
        \A e \in gr.edges : e[1] # e[2]}

Partitions == UNION {[D -> CommunityIds] : D \in SUBSET Nodes}

RECURSIVE SortPairs(_)
\* g.edges(): the edges in enumeration order (by first node, then second)
SortPairs(E) ==
    IF E = {} THEN <<>>
    ELSE LET e == CHOOSE x \in E : \A y \in E :
                      x[1] < y[1] \/ (x[1] = y[1] /\ x[2] <= y[2])
         IN  <<e>> \o SortPairs(E \ {e})

EdgesOf(graph) == SortPairs(graph.edges)

\* partition.items() in iteration order
Items(part) == SortedSeq(DOMAIN part)

\* ------------------------------------------------- nx.spring_layout (solver)
\* The force-directed solver of networkx, called at lines 50 and 90, as far
\* as the layout code relies on it: its positions are a fixed function of
\* the nodes, the adjacency weights, the scale and the random stream it
\* draws the starting positions from (two numbers per node).
\* The k-th number of the random stream.
Draw(k) == (3 * k * k + k + 1) % 7

\* RandomState(seed): the stream position a seed starts from.
SeedState(k) == k % RngPeriod

\* a solver that draws from the global random state whatever the seed
StreamOfMutant(seed, r) == r

\* The stream a call draws from: the global numpy state for seed=None,
\* a fresh RandomState(seed) otherwise.
StreamOf(seed, r) == IF seed = <<>> THEN r ELSE SeedState(seed[1])

Rank(V, v) == Cardinality({u \in V : u < v})

\* The attraction on v: row v of the adjacency matrix of the laid-out graph.
Pull(V, w, v) ==
    LET row == {e \in DOMAIN w : e[1] = v}
    IN  SumOver(row, [e \in row |-> w[e] * (Rank(V, e[2]) + 1)])

\* nx.spring_layout(G, scale=scale, seed=seed) on the graph with node set V
\* and adjacency weights w, with the global random state at r: the
\* positions and the global random state afterwards.  The empty graph gives
\* the empty dict and a single node sits at the centre; neither draws.
SpringLayout(V, w, scale, seed, r) ==
    IF V = {} THEN [pos |-> EmptyDict, rng |-> r]
    ELSE IF Cardinality(V) = 1 THEN [pos |-> [v \in V |-> <<0, 0>>], rng |-> r]
    ELSE LET s == StreamOf(seed, r)
         IN  [pos |-> [v \in V |->
                        <<scale * (Draw(s + 2 * Rank(V, v)) + Pull(V, w, v)),
                          scale * (Draw(s + 2 * Rank(V, v) + 1) + 2 * Pull(V, w, v))>>],
              rng |-> IF seed = <<>>
                      THEN (r + 2 * Cardinality(V)) % RngPeriod
                      ELSE r]

\* --------------------------------------------- _find_between_community_edges
RECURSIVE FindEdgesLoopMutant(_, _, _)
\* the loop with the list of an existing key overwritten instead of extended
FindEdgesLoopMutant(es, part, acc) ==
    IF es = <<>> THEN [raised |-> FALSE, edges |-> acc]
    ELSE LET ni == Head(es)[1]
             nj == Head(es)[2]
         IN  IF ni \notin DOMAIN part \/ nj \notin DOMAIN part
             THEN [raised |-> TRUE, edges |-> EmptyDict]
             ELSE LET ci == part[ni]
                      cj == part[nj]
                  IN  IF ci # cj
                      THEN FindEdgesLoopMutant(Tail(es), part,
                               (<<ci, cj>> :> <<Head(es)>>) @@ acc)
                      ELSE FindEdgesLoopMutant(Tail(es), part, acc)

RECURSIVE FindEdgesLoop(_, _, _)
\* the loop over g.edges(): acc is the dict built so far
FindEdgesLoop(es, part, acc) ==
    IF es = <<>> THEN [raised |-> FALSE, edges |-> acc]
    ELSE LET ni == Head(es)[1]
             nj == Head(es)[2]
         IN  IF ni \notin DOMAIN part \/ nj \notin DOMAIN part
             THEN [raised |-> TRUE, edges |-> EmptyDict]
             ELSE LET ci == part[ni]
                      cj == part[nj]
                  IN  IF ci # cj
                      THEN IF <<ci, cj>> \in DOMAIN acc
                           THEN FindEdgesLoop(Tail(es), part,
                                    [acc EXCEPT ![<<ci, cj>>] = @ \o <<Head(es)>>])
                           ELSE FindEdgesLoop(Tail(es), part,
                                    (<<ci, cj>> :> <<Head(es)>>) @@ acc)
                      ELSE FindEdgesLoop(Tail(es), part, acc)

FindBetweenCommunityEdges(graph, part) == FindEdgesLoop(EdgesOf(graph), part, EmptyDict)

\* ------------------------------------------------------ _position_communities
\* hypergraph.add_nodes_from(set(partition.values()))
HypergraphNodes(part) == Range(part)

\* hypergraph.add_edge(ci, cj, weight=len(edges))
HypergraphWeights(bce) == [k \in DOMAIN bce |-> Len(bce[k])]

\* the anchor looked up under a fixed community instead of the node's own
AnchorOfMutant(layout, node, community) == layout[Min(DOMAIN layout)]

\* pos[node] = pos_communities[community]
AnchorOf(layout, node, community) == layout[community]

AssignAnchors(part, layout) ==
    [node \in DOMAIN part |-> AnchorOf(layout, node, part[node])]

\* ------------------------------------------------------------ _position_nodes
RECURSIVE GroupLoop(_, _, _)
\* the loop over partition.items(): keys in insertion order, lists per key
GroupLoop(items, part, acc) ==
    IF items = <<>> THEN acc
    ELSE LET node == Head(items)
             c == part[node]
         IN  IF c \in DOMAIN acc.lists
             THEN GroupLoop(Tail(items), part,
                      [acc EXCEPT !.lists[c] = @ \o <<node>>])
             ELSE GroupLoop(Tail(items), part,
                      [keys |-> acc.keys \o <<c>>,
                       lists |-> (c :> <<node>>) @@ acc.lists])

GroupByCommunity(part) ==
    GroupLoop(Items(part), part, [keys |-> <<>>, lists |-> EmptyDict])

\* a subgraph that keeps every edge touching a member
SubgraphMutant(graph, nodes) ==
    LET V == graph.nodes \cap Range(nodes)
    IN  [nodes |-> V,
         edges |-> {e \in graph.edges : e[1] \in V \/ e[2] \in V},
         directed |-> graph.directed]

\* a subgraph built on the listed nodes, in the graph or not
SubgraphUnfiltered(graph, nodes) ==
    LET V == Range(nodes)
    IN  [nodes |-> V,
         edges |-> {e \in graph.edges : e[1] \in V /\ e[2] \in V},
         directed |-> graph.directed]

\* g.subgraph(nodes): the nodes of g among `nodes`, the edges of g between them
Subgraph(graph, nodes) ==
    LET V == graph.nodes \cap Range(nodes)
    IN  [nodes |-> V,
         edges |-> {e \in graph.edges : e[1] \in V /\ e[2] \in V},
         directed |-> graph.directed]

\* the adjacency matrix of a graph: both entries for an undirected edge
AdjacencyOf(graph) ==
    LET E == IF graph.directed THEN graph.edges
             ELSE graph.edges \cup {<<e[2], e[1]>> : e \in graph.edges}
    IN  [e \in E |-> 1]

\* pos.update(pos_subgraph)
DictUpdate(d, new) == new @@ d

\* an iteration that skips a community without internal edges
LayoutCommunityStepMutant(graph, nodes, scale, seed, r, acc) ==
    LET subgraph == [nodes |-> graph.nodes \cap Range(nodes),
                     edges |-> {e \in graph.edges :
                                   e[1] \in Range(nodes) /\ e[2] \in Range(nodes)},
                     directed |-> graph.directed]
        lay == IF subgraph.edges = {}
               THEN [pos |-> EmptyDict, rng |-> r]
               ELSE SpringLayout(subgraph.nodes, AdjacencyOf(subgraph), scale, seed, r)
    IN  [pos |-> lay.pos @@ acc, rng |-> lay.rng,
         call |-> [nodes |-> subgraph.nodes, w |-> AdjacencyOf(subgraph),
                   scale |-> scale, rng |-> r, pos |-> lay.pos]]

\* an iteration that does not hand the keyword arguments' seed to the solver
LayoutCommunityStepUnseeded(graph, nodes, scale, seed, r, acc) ==
    LET V == graph.nodes \cap Range(nodes)
        sub == [nodes |-> V,
                edges |-> {e \in graph.edges : e[1] \in V /\ e[2] \in V},
                directed |-> graph.directed]
        lay == SpringLayout(V, AdjacencyOf(sub), scale, <<>>, r)
    IN  [pos |-> lay.pos @@ acc, rng |-> lay.rng,
         call |-> [nodes |-> V, w |-> AdjacencyOf(sub),
                   scale |-> scale, rng |-> r, pos |-> lay.pos]]

\* one iteration of the loop over communities.items()
LayoutCommunityStep(graph, nodes, scale, seed, r, acc) ==
    LET subgraph == Subgraph(graph, nodes)
        lay == SpringLayout(subgraph.nodes, AdjacencyOf(subgraph), scale, seed, r)
    IN  [pos |-> DictUpdate(acc, lay.pos), rng |-> lay.rng,
         call |-> [nodes |-> subgraph.nodes, w |-> AdjacencyOf(subgraph),
                   scale |-> scale, rng |-> r, pos |-> lay.pos]]

RECURSIVE LayoutLoop(_, _, _, _, _, _, _)
LayoutLoop(keys, lists, graph, scale, seed, r, acc) ==
    IF keys = <<>> THEN [pos |-> acc, rng |-> r]
    ELSE LET step == LayoutCommunityStep(graph, lists[Head(keys)], scale, seed, r, acc)
         IN  LayoutLoop(Tail(keys), lists, graph, scale, seed, step.rng, step.pos)

\* _position_nodes(g, partition, scale=scale, seed=seed), as a whole
PositionNodes(graph, part, scale, seed, r) ==
    LET grp == GroupByCommunity(part)
    IN  LayoutLoop(grp.keys, grp.lists, graph, scale, seed, r, EmptyDict)

\* ------------------------------------------------------------ community_layout
\* the offset left out of the sum
CombineMutant(anchor, offset) == anchor

\* pos[node] = pos_communities[node] + pos_nodes[node]
Combine(anchor, offset) == VAdd(anchor, offset)

\* the loop run over the endpoints of the edges instead of the nodes
ComposedKeysMutant(graph) ==
    {n \in graph.nodes : \E e \in graph.edges : n = e[1] \/ n = e[2]}

\* for node in g.nodes()
ComposedKeys(graph) == graph.nodes

\* a loop that skips the nodes it has no anchor or no offset for
ComposeLoopMutant(graph, anchors, offsets) ==
    [raised |-> FALSE,
     pos |-> [node \in {n \in graph.nodes :
                           n \in DOMAIN anchors /\ n \in DOMAIN offsets} |->
                 VAdd(anchors[node], offsets[node])]]

\* lines 31-35: the loop raises KeyError at a node without an anchor or
\* without an offset, and the dict built so far is lost
ComposeLoop(graph, anchors, offsets) ==
    IF \A node \in ComposedKeys(graph) :
           node \in DOMAIN anchors /\ node \in DOMAIN offsets
    THEN [raised |-> FALSE,
          pos |-> [node \in ComposedKeys(graph) |->
                      Combine(anchors[node], offsets[node])]]
    ELSE [raised |-> TRUE, pos |-> EmptyDict]

\* ------------------------------------------------------------------- state
NoCall == [called |-> FALSE]

Init ==
    /\ g \in Graphs
    /\ partition \in Partitions
    /\ rng = 0
    /\ pc = "start"
    /\ raised = "none"
    /\ between_community_edges = EmptyDict
    /\ pos_communities = EmptyDict
    /\ communities = EmptyDict
    /\ todo = <<>>
    /\ pos_nodes = EmptyDict
    /\ pos = EmptyDict
    /\ calls = <<>>
    /\ last = NoCall
    /\ memo = NoCall

\* community_layout called as its docstring asks: the partition maps exactly
\* the nodes of the graph
InitCovered ==
    /\ g \in CoveredGraphs
    /\ partition \in [g.nodes -> CommunityIds]
    /\ rng = 0
    /\ pc = "start"
    /\ raised = "none"
    /\ between_community_edges = EmptyDict
    /\ pos_communities = EmptyDict
    /\ communities = EmptyDict
    /\ todo = <<>>
    /\ pos_nodes = EmptyDict
    /\ pos = EmptyDict
    /\ calls = <<>>
    /\ last = NoCall
    /\ memo = NoCall

\* _position_communities, line 41: the call of _find_between_community_edges
FindEdges ==
    /\ pc = "start"
    /\ LET r == FindBetweenCommunityEdges(g, partition)
       IN  IF r.raised
           THEN /\ pc' = "error"
                /\ raised' = "_find_between_community_edges"
                /\ UNCHANGED between_community_edges
           ELSE /\ pc' = "meta"
                /\ between_community_edges' = r.edges
                /\ UNCHANGED raised
    /\ UNCHANGED <<g, partition, rng, pos_communities, communities, todo,
                   pos_nodes, pos, calls, last, memo>>

\* _position_communities, lines 43-57: the meta-graph, its layout, the anchors
PositionCommunities ==
    /\ pc = "meta"
    /\ LET V == HypergraphNodes(partition)
           w == HypergraphWeights(between_community_edges)
           lay == SpringLayout(V, w, CommunityScale, <<>>, rng)
       IN  /\ pos_communities' = AssignAnchors(partition, lay.pos)
           /\ rng' = lay.rng
           /\ calls' = Append(calls, [nodes |-> V, w |-> w, scale |-> CommunityScale,
                                      rng |-> rng, pos |-> lay.pos])
    /\ pc' = "group"
    /\ UNCHANGED <<g, partition, raised, between_community_edges, communities,
                   todo, pos_nodes, pos, last, memo>>

\* _position_nodes, lines 80-87: the nodes of the partition grouped by community
GroupNodes ==
    /\ pc = "group"
    /\ LET grp == GroupByCommunity(partition)
       IN  /\ communities' = grp.lists
           /\ todo' = grp.keys
    /\ pos_nodes' = EmptyDict
    /\ pc' = "layout"
    /\ UNCHANGED <<g, partition, rng, raised, between_community_edges,
                   pos_communities, pos, calls, last, memo>>

\* _position_nodes, lines 88-91: one community laid out
LayoutCommunity ==
    /\ pc = "layout"
    /\ todo # <<>>
    /\ LET step == LayoutCommunityStep(g, communities[Head(todo)], NodeScale,
                                       <<>>, rng, pos_nodes)
       IN  /\ pos_nodes' = step.pos
           /\ rng' = step.rng
           /\ calls' = Append(calls, step.call)
    /\ todo' = Tail(todo)
    /\ UNCHANGED <<g, partition, pc, raised, between_community_edges,
                   pos_communities, communities, pos, last, memo>>

\* community_layout, lines 31-35: the positions combined and returned
Compose ==
    /\ pc = "layout"
    /\ todo = <<>>
    /\ LET r == ComposeLoop(g, pos_communities, pos_nodes)
       IN  IF r.raised
           THEN /\ pc' = "error"
                /\ raised' = "community_layout"
                /\ UNCHANGED pos
           ELSE /\ pc' = "done"
                /\ pos' = r.pos
                /\ UNCHANGED raised
    /\ UNCHANGED <<g, partition, rng, between_community_edges, pos_communities,
                   communities, todo, pos_nodes, calls, last, memo>>

Next == FindEdges \/ PositionCommunities \/ GroupNodes \/ LayoutCommunity \/ Compose

Spec == Init /\ [][Next]_vars

SpecCovered == InitCovered /\ [][Next]_vars

\* ------------------------------------------- repeated calls of _position_nodes
\* The arguments of the calls are fixed per behaviour: `last` holds them, the
\* latest result and whether the global random state had moved since the
\* first call; `memo` holds the first call's result and global random state.
\* Other users of the global random state run between the calls.  The
\* partition maps every node of the graph, as community_layout requires.
InitNodes ==
    /\ g \in Graphs
    /\ partition \in {p \in Partitions : g.nodes \subseteq DOMAIN p}
    /\ rng = 0
    /\ pc = "idle"
    /\ raised = "none"
    /\ between_community_edges = EmptyDict
    /\ pos_communities = EmptyDict
    /\ communities = EmptyDict
    /\ todo = <<>>
    /\ pos_nodes = EmptyDict
    /\ pos = EmptyDict
    /\ calls = <<>>
    /\ last \in {[called |-> FALSE, scale |-> NodeScale, seed |-> sd,
                   moved |-> FALSE, pos |-> EmptyDict] : sd \in SeededCalls}
    /\ memo = NoCall

\* _position_nodes(g, partition, scale=scale, seed=seed), lines 75-93
CallPositionNodes ==
    /\ pc = "idle"
    /\ LET r == PositionNodes(g, partition, last.scale, last.seed, rng)
       IN  /\ rng' = r.rng
           /\ last' = [last EXCEPT !.called = TRUE, !.pos = r.pos,
                                   !.moved = memo.called /\ rng # memo.rng]
           /\ memo' = IF memo.called THEN memo
                      ELSE [called |-> TRUE, rng |-> rng, pos |-> r.pos]
    /\ UNCHANGED <<g, partition, pc, raised, between_community_edges,
                   pos_communities, communities, todo, pos_nodes, pos, calls>>

\* _position_nodes(g, partition, scale=1.) without a seed, as community_layout
\* calls it (line 28): it draws from the global random state
CallUnseeded ==
    /\ pc = "idle"
    /\ memo.called
    /\ rng' = PositionNodes(g, partition, NodeScale, <<>>, rng).rng
    /\ rng' # rng
    /\ UNCHANGED <<g, partition, pc, raised, between_community_edges,
                   pos_communities, communities, todo, pos_nodes, pos, calls,
                   last, memo>>

\* draw_graph, line 109: nx.spring_layout(g) draws from the global random state
DrawGraph ==
    /\ pc = "idle"
    /\ memo.called
    /\ rng' = SpringLayout(g.nodes, AdjacencyOf(g), NodeScale, <<>>, rng).rng
    /\ rng' # rng
    /\ UNCHANGED <<g, partition, pc, raised, between_community_edges,
                   pos_communities, communities, todo, pos_nodes, pos, calls,
                   last, memo>>

NextNodes == CallPositionNodes \/ CallUnseeded \/ DrawGraph

SpecNodes == InitNodes /\ [][NextNodes]_vars

\* ------------------------------------------------------------------ claims
\* the partition maps every node of the graph to a community
Covers == g.nodes \subseteq DOMAIN partition

\* the nodes of the graph that the partition omits
Omitted == g.nodes \ DOMAIN partition

\* the nodes the partition lists that are not in the graph
Extras == DOMAIN partition \ g.nodes

\* the nodes of the graph in community c
Members(c) == {n \in g.nodes : n \in DOMAIN partition /\ partition[n] = c}

\* the edges of the graph with both endpoints in community c
InternalEdges(c) == {e \in g.edges : e[1] \in Members(c) /\ e[2] \in Members(c)}

\* the edges g.edges() yields from community ci to community cj
Crossing(ci, cj) ==
    {e \in g.edges : partition[e[1]] = ci /\ partition[e[2]] = cj}

\* the meta-graph has been laid out: calls[1] is that call of the solver
MetaDone == calls # <<>>

\* _position_nodes has returned: calls[2..] are its calls of the solver
NodesDone == MetaDone /\ pc \in {"layout", "done", "error"} /\ todo = <<>>

\* C1: when the partition maps every node of g to a community,
\* community_layout raises nothing and the mapping it returns has exactly
\* the nodes of g as its keys.
C1_KeysAreNodes ==
    Covers => /\ pc # "error"
              /\ pc = "done" => DOMAIN pos = g.nodes

C1_Witness ==
    /\ pc = "done"
    /\ Covers
    /\ Cardinality(g.nodes) = MaxNode
    /\ \E n \in g.nodes : \A e \in g.edges : n # e[1] /\ n # e[2]

\* C2: the returned position of every node n is the sum of the anchor that
\* the meta-graph layout, run with scale 3, gives to partition[n] and the
\* offset that the layout of the induced subgraph of n's community, run with
\* scale 1, gives to n.
C2_SumOfAnchorAndOffset ==
    pc = "done" =>
        /\ calls[1].scale = CommunityScale
        /\ calls[1].nodes = Range(partition)
        /\ \A n \in g.nodes :
              \E k \in 2..Len(calls) :
                 /\ calls[k].scale = NodeScale
                 /\ calls[k].nodes = Members(partition[n])
                 /\ calls[k].w = AdjacencyOf([nodes |-> Members(partition[n]),
                                              edges |-> InternalEdges(partition[n]),
                                              directed |-> g.directed])
                 /\ pos[n] = <<calls[1].pos[partition[n]][1] + calls[k].pos[n][1],
                               calls[1].pos[partition[n]][2] + calls[k].pos[n][2]>>

C2_Witness ==
    /\ pc = "done"
    /\ \E n \in g.nodes :
          /\ calls[1].pos[partition[n]] # <<0, 0>>
          /\ pos_nodes[n] # <<0, 0>>
          /\ pos[n] # pos_nodes[n]
          /\ pos[n] # pos_communities[n]

\* C3: when the partition omits a node of the graph, community_layout never
\* returns a mapping: it can only end in a KeyError; and when the omitted node
\* is an endpoint of an edge, the KeyError comes from
\* _find_between_community_edges, before anything is laid out.
C3_OmittedNodeRaises ==
    Omitted # {} =>
        /\ pc # "done"
        /\ pos = EmptyDict
        /\ (pc = "layout" /\ todo = <<>>) =>
               ComposeLoop(g, pos_communities, pos_nodes).raised
        /\ (\E e \in g.edges : e[1] \in Omitted \/ e[2] \in Omitted) =>
               /\ pc \in {"start", "error"}
               /\ pc = "error" => raised = "_find_between_community_edges"

C3_Witness ==
    /\ pc = "error"
    /\ raised = "community_layout"
    /\ Omitted # {}
    /\ g.edges # {}
    /\ pos_nodes # EmptyDict

\* C4: every node the partition lists gets the anchor of its own community;
\* every community id of the partition is a node of the meta-graph and gets
\* one anchor; two nodes of one community have the same anchor; and with a
\* single community the returned positions differ exactly as the offsets do.
C4_AnchorOfOwnCommunity ==
    MetaDone =>
        /\ calls[1].nodes = Range(partition)
        /\ DOMAIN calls[1].pos = Range(partition)
        /\ DOMAIN pos_communities = DOMAIN partition
        /\ \A n \in DOMAIN partition :
              pos_communities[n] = calls[1].pos[partition[n]]
        /\ \A n, m \in DOMAIN partition :
              partition[n] = partition[m] => pos_communities[n] = pos_communities[m]
        /\ (pc = "done" /\ Cardinality(Range(partition)) = 1) =>
              \A n, m \in g.nodes :
                 VSub(pos[n], pos[m]) = VSub(pos_nodes[n], pos_nodes[m])

C4_Witness ==
    /\ pc = "done"
    /\ Cardinality(Range(partition)) > 1
    /\ between_community_edges = EmptyDict
    /\ \E n, m \in g.nodes :
          /\ n # m
          /\ partition[n] = partition[m]
          /\ pos_communities[n] # <<0, 0>>
          /\ pos[n] # pos[m]

\* C5: a call of _position_nodes with the same graph, partition, scale and
\* seed returns what the first such call returned, whatever has drawn from
\* the global random state in between.
C5_SeededCallsAgree ==
    (last.called /\ memo.called) => last.pos = memo.pos

C5_Witness ==
    /\ last.called
    /\ last.moved
    /\ \E n, m \in DOMAIN last.pos : last.pos[n] # last.pos[m]

\* the example of the specification: edges (1,2), (2,3), (3,4) with
\* partition 1:A, 2:A, 3:B, 4:B, where A is community 1 and B community 2
ExampleEdges ==
    FindBetweenCommunityEdges(
        [nodes |-> {1, 2, 3, 4},
         edges |-> {<<1, 2>>, <<2, 3>>, <<3, 4>>},
         directed |-> TRUE],
        (1 :> 1) @@ (2 :> 1) @@ (3 :> 2) @@ (4 :> 2)).edges

\* C6: the dict of _find_between_community_edges has the key (ci, cj) exactly
\* when ci # cj and some edge (u, v) yielded by g.edges() goes from ci to cj;
\* its list holds exactly those edges, once each, and its length is the
\* weight of the meta-graph edge (ci, cj); the lengths add up to the number
\* of edges between different communities.
C6_BetweenCommunityEdges ==
    /\ DOMAIN ExampleEdges = {<<1, 2>>}
    /\ Len(ExampleEdges[<<1, 2>>]) = 1
    /\ (pc \in {"meta", "group", "layout", "done"} \/ raised = "community_layout") =>
          LET bce == between_community_edges
          IN  /\ DOMAIN bce \subseteq CommunityIds \X CommunityIds
              /\ \A ci, cj \in CommunityIds :
                    /\ <<ci, cj>> \in DOMAIN bce <=> (ci # cj /\ Crossing(ci, cj) # {})
                    /\ <<ci, cj>> \in DOMAIN bce =>
                          /\ Range(bce[<<ci, cj>>]) = Crossing(ci, cj)
                          /\ Len(bce[<<ci, cj>>]) = Cardinality(Crossing(ci, cj))
              /\ SumOver(DOMAIN bce, [k \in DOMAIN bce |-> Len(bce[k])])
                    = Cardinality({e \in g.edges : partition[e[1]] # partition[e[2]]})
              /\ MetaDone =>
                    calls[1].w = [k \in DOMAIN bce |-> Cardinality(Crossing(k[1], k[2]))]

C6_Witness ==
    /\ pc = "done"
    /\ \E k \in DOMAIN between_community_edges :
          /\ Len(between_community_edges[k]) = MaxEdges
          /\ calls[1].w[k] = MaxEdges

\* C7: the weight of the meta-graph edge joining two distinct communities is
\* the number of edges of the graph with one endpoint in each, whichever way
\* each edge is oriented or enumerated.
C7_WeightCountsBothWays ==
    MetaDone =>
        \A k \in DOMAIN calls[1].w :
           calls[1].w[k] =
               Cardinality({e \in g.edges :
                               {partition[e[1]], partition[e[2]]} = {k[1], k[2]}})

\* the graph with the edge e added, or removed
EdgeToggled(graph, e) ==
    [graph EXCEPT !.edges = IF e \in @ THEN @ \ {e} ELSE @ \cup {e}]

Degenerate ==
    \/ g.nodes = {} /\ partition = EmptyDict
    \/ Cardinality(g.nodes) = 1
    \/ \E c \in Range(partition) : InternalEdges(c) = {}

\* C9: on a degenerate input whose partition covers the graph,
\* community_layout raises nothing, every call of the solver gives a
\* position to every node it is handed, and the returned mapping has a
\* position for every node of the graph.
C9_DegenerateInputs ==
    (Degenerate /\ Covers) =>
        /\ pc # "error"
        /\ \A k \in 1..Len(calls) : DOMAIN calls[k].pos = calls[k].nodes
        /\ NodesDone => DOMAIN pos_nodes = g.nodes
        /\ pc = "done" => /\ DOMAIN pos = g.nodes
                          /\ g.nodes = {} => pos = EmptyDict

C9_Witness ==
    /\ pc = "done"
    /\ Cardinality(g.nodes) = MaxNode
    /\ g.edges # {}
    /\ \E c \in Range(partition) : Cardinality(Members(c)) > 1 /\ InternalEdges(c) = {}

\* C10: when the partition also lists nodes that are not in the graph,
\* community_layout raises nothing and returns exactly the graph's nodes,
\* the extra nodes get an anchor but no offset and no position, and their
\* communities are nodes of the meta-graph that is laid out.
C10_ExtraPartitionNodes ==
    (Extras # {} /\ Covers) =>
        /\ pc # "error"
        /\ MetaDone =>
              \A x \in Extras :
                 /\ partition[x] \in calls[1].nodes
                 /\ partition[x] \in DOMAIN calls[1].pos
                 /\ x \in DOMAIN pos_communities
        /\ \A x \in Extras : x \notin DOMAIN pos_nodes
        /\ pc = "done" => DOMAIN pos = g.nodes

C10_Witness ==
    /\ pc = "done"
    /\ g.nodes # {}
    /\ \E x \in Extras :
          /\ \A n \in g.nodes : partition[n] # partition[x]
          /\ partition[x] \in DOMAIN calls[1].pos

====
